---- MODULE Spec2Model ----
(***************************************************************************)
(* The approval-gated artifact pipeline of pedal2: the Airflow DAG         *)
(* swe_artifact_pipeline, its transform operators, the ApprovalOperator    *)
(* quorum check and the ManualApprovalOperator decision path, over the     *)
(* artifact / approval / pipeline-stage tables reached through             *)
(* SupabaseHook.                                                           *)
(***************************************************************************)
EXTENDS Integers, Sequences, FiniteSets, TLC

\* ---------------------------------------------------------------- bounds
\* Events from outside the DAG in one DAG run: injected faults (a hook or
\* processor call raising) and ManualApprovalOperator executions started.
MaxEvents == 2

\* ------------------------------------------------------ program constants
\* default_args['retries']
Retries == 1
\* for i in range(6)
NumStages == 6
\* parentId of an artifact created without one (the PRD)
NoParent == 0
\* XCom value of a task that has pushed nothing
NoId == 0

\* The order index each creating operator assumes for the type it creates.
TypeAt ==
  [i \in 0..(NumStages - 1) |->
     CASE i = 0 -> "PRD"
       [] i = 1 -> "DDD_MODEL"
       [] i = 2 -> "API_SPEC"
       [] i = 3 -> "TYPESPEC"
       [] i = 4 -> "ZOD_SCHEMA"
       [] OTHER -> "DB_SCHEMA"]

\* stakeholder_id arguments of ManualApprovalOperator: of the stakeholderId
\* values 1..5 the operators write into approval records, 2 (API_SPEC and
\* ZOD_SCHEMA), 3 (TYPESPEC and DB_SCHEMA) and 4 (ZOD_SCHEMA); each has no record
\* on the other artifacts.
Stakeholders == {2, 3, 4}

\* (approve, comment) arguments of ManualApprovalOperator: an approval without
\* a comment (None), a rejection with one
DecisionInputs == {<<TRUE, "">>, <<FALSE, "c">>}

\* dag_run.conf.prd_content: empty or a document
PrdContents == {"", "doc"}

\* Concurrent executions of ManualApprovalOperator
Deciders == {"d1", "d2"}
SlotOrder == [p \in Deciders |-> IF p = "d1" THEN 1 ELSE 2]

\* The number of approval records the creating operator of each stage seeds
SeededAt ==
  [i \in 0..(NumStages - 1) |-> IF i \in {2, 4, 5} THEN 2 ELSE 1]

VARIABLES
  stages,       \* pipelineStages table: orderIndex -> row (read-only at run time)
  prd_content,  \* dag_run.conf.prd_content
  artifacts,    \* artifacts table: id -> row (ids are 1..Len)
  approvals,    \* approvals table: id -> row
  ti,           \* task instances of the DAG run: task -> [state, tries]
  xcom,         \* values pushed by the creating tasks
  approved,     \* return value of each ApprovalOperator task
  completions,  \* return values of finalize_pipeline
  events,       \* faults injected and decisions started so far
  dec           \* ManualApprovalOperator executions in flight

vars == <<stages, prd_content, artifacts, approvals, ti, xcom, approved,
          completions, events, dec>>

\* ------------------------------------------------------------ stage table
NoStage == [artifactType |-> "NULL", requiredApprovals |-> 0]

\* The pipelineStages table is data of the deployment: one row per order index
\* and type, requiring either one approval at every stage or the approval of
\* every stakeholder the creating operator seeds.
StageConfigs ==
  { [i \in 0..(NumStages - 1) |->
       [artifactType |-> TypeAt[i],
        requiredApprovals |-> IF all THEN SeededAt[i] ELSE 1]] :
    all \in BOOLEAN }

\* SupabaseHook.get_pipeline_stage_by_order: the row or null
get_pipeline_stage_by_order(order_index) ==
  IF order_index \in DOMAIN stages THEN stages[order_index] ELSE NoStage

\* Mutant: for i in range(5).
RECURSIVE ScanStages_Range5(_, _)
ScanStages_Range5(i, type) ==
  IF i >= NumStages - 1 THEN NoStage
  ELSE LET potential_stage == get_pipeline_stage_by_order(i) IN
       IF potential_stage # NoStage /\ potential_stage.artifactType = type
       THEN potential_stage
       ELSE ScanStages_Range5(i + 1, type)

\* for i in range(6): first row whose artifactType is the type, else None
RECURSIVE ScanStages(_, _)
ScanStages(i, type) ==
  IF i >= NumStages THEN NoStage
  ELSE LET potential_stage == get_pipeline_stage_by_order(i) IN
       IF potential_stage # NoStage /\ potential_stage.artifactType = type
       THEN potential_stage
       ELSE ScanStages(i + 1, type)

\* ------------------------------------------------------------------ store
\* SupabaseHook.get_approvals_for_artifact: ids of the rows of the artifact
RECURSIVE ApprovalIdsFrom(_, _, _)
ApprovalIdsFrom(apps, artifact_id, i) ==
  IF i > Len(apps) THEN <<>>
  ELSE IF apps[i].artifactId = artifact_id
       THEN <<i>> \o ApprovalIdsFrom(apps, artifact_id, i + 1)
       ELSE ApprovalIdsFrom(apps, artifact_id, i + 1)

get_approvals_for_artifact(artifact_id) ==
  ApprovalIdsFrom(approvals, artifact_id, 1)

\* sum(1 for approval in approvals if approval['status'] == 'APPROVED')
RECURSIVE CountApproved(_)
CountApproved(ids) ==
  IF ids = <<>> THEN 0
  ELSE (IF approvals[Head(ids)].status = "APPROVED" THEN 1 ELSE 0)
       + CountApproved(Tail(ids))

\* Mutant: every record that is not REJECTED counts.
RECURSIVE CountNotRejected(_)
CountNotRejected(ids) ==
  IF ids = <<>> THEN 0
  ELSE (IF approvals[Head(ids)].status # "REJECTED" THEN 1 ELSE 0)
       + CountNotRejected(Tail(ids))

approved_count_NotRejected(artifact_id) ==
  CountNotRejected(get_approvals_for_artifact(artifact_id))

approved_count(artifact_id) ==
  CountApproved(get_approvals_for_artifact(artifact_id))

\* SupabaseHook.create_artifact with status PENDING_APPROVAL
create_artifact(arts, type, parentId) ==
  Append(arts, [type |-> type, status |-> "PENDING_APPROVAL", parentId |-> parentId])

\* SupabaseHook.create_approval with status PENDING
create_approval(apps, artifactId, stakeholderId) ==
  Append(apps, [artifactId |-> artifactId, stakeholderId |-> stakeholderId,
                status |-> "PENDING", comment |-> ""])

\* SupabaseHook.update_artifact(id, {'status': status})
update_artifact(arts, artifact_id, status) ==
  [arts EXCEPT ![artifact_id].status = status]

\* SupabaseHook.update_approval(id, {'status': status[, 'comment': comment]})
update_approval(apps, approval_id, status, comment) ==
  [apps EXCEPT ![approval_id] =
     [@ EXCEPT !.status = status,
               !.comment = IF comment # "" THEN comment ELSE @]]

\* ------------------------------------------------------ creating operators
\* The store calls an operator makes after its reads, in program order.
Art(type) == [op |-> "artifact", type |-> type, of |-> 0, stakeholderId |-> 0]
Apr(of, stakeholderId) ==
  [op |-> "approval", type |-> "", of |-> of, stakeholderId |-> stakeholderId]

\* create_prd_artifact: the PRD, then the approval of stakeholder 1
CreatePrdWrites == <<Art("PRD"), Apr(1, 1)>>
\* PRDProcessorOperator.execute: the DDD_MODEL, then the approval of stakeholder 1
PRDProcessorWrites == <<Art("DDD_MODEL"), Apr(1, 1)>>
\* Mutant: approval2 copied from approval1 with its stakeholderId.
APIGeneratorWrites_SameStakeholder == <<Art("API_SPEC"), Apr(1, 1), Apr(1, 1)>>
\* APIGeneratorOperator.execute: the API_SPEC, then approval1, approval2
APIGeneratorWrites == <<Art("API_SPEC"), Apr(1, 1), Apr(1, 2)>>
\* Mutant: the artifact dict copied from APIGeneratorOperator with its type.
TypeSpecGeneratorWrites_TypeOfSource == <<Art("API_SPEC"), Apr(1, 3)>>
\* TypeSpecGeneratorOperator.execute: the TYPESPEC, then the approval of stakeholder 3
TypeSpecGeneratorWrites == <<Art("TYPESPEC"), Apr(1, 3)>>
\* Mutant: the db approvals carry created_zod_artifact['id'].
SchemaGeneratorWrites_ZodIdInDbApprovals ==
  <<Art("ZOD_SCHEMA"), Art("DB_SCHEMA"), Apr(1, 2), Apr(1, 4), Apr(1, 3), Apr(1, 5)>>
\* SchemaGeneratorOperator.execute: both schemas, then the four approvals
SchemaGeneratorWrites ==
  <<Art("ZOD_SCHEMA"), Art("DB_SCHEMA"), Apr(1, 2), Apr(1, 4), Apr(2, 3), Apr(2, 5)>>

\* One store call of a creating operator, on the store st.
ApplyWrite(st, w, parentId) ==
  IF w.op = "artifact"
  THEN [artifacts |-> create_artifact(st.artifacts, w.type, parentId),
        approvals |-> st.approvals,
        created   |-> Append(st.created, Len(st.artifacts) + 1)]
  ELSE [artifacts |-> st.artifacts,
        approvals |-> create_approval(st.approvals, st.created[w.of], w.stakeholderId),
        created   |-> st.created]

\* The first k store calls of the plan; a call that raises ends the execution.
RECURSIVE ApplyWrites(_, _, _, _)
ApplyWrites(st, plan, parentId, k) ==
  IF k = 0 \/ plan = <<>> THEN st
  ELSE ApplyWrites(ApplyWrite(st, Head(plan), parentId), Tail(plan), parentId, k - 1)

Outcome(st, raised) ==
  [artifacts |-> st.artifacts, approvals |-> st.approvals,
   created |-> st.created, raised |-> raised]

Store == [artifacts |-> artifacts, approvals |-> approvals, created |-> <<>>]

\* Mutant: the operator marks its source artifact once it has stored the result.
Transform_MarksSource(artifact_id, sourceType, plan, k) ==
  IF artifact_id \notin DOMAIN artifacts THEN Outcome(Store, TRUE)
  ELSE IF artifacts[artifact_id].type # sourceType THEN Outcome(Store, TRUE)
  ELSE LET st == ApplyWrites(Store, plan, artifact_id, k) IN
       IF k < Len(plan) THEN Outcome(st, TRUE)
       ELSE Outcome([st EXCEPT !.artifacts =
                       update_artifact(@, artifact_id, "PROCESSED")], FALSE)

\* Mutant: the type check left out.
Transform_NoTypeCheck(artifact_id, sourceType, plan, k) ==
  IF artifact_id \notin DOMAIN artifacts THEN Outcome(Store, TRUE)
  ELSE Outcome(ApplyWrites(Store, plan, artifact_id, k), k < Len(plan))

\* A transform operator on artifact_id: get_artifact, the not-found and type
\* checks, NodeExecutor.execute_processor, then the store calls. k is the number
\* of store calls that return before one raises (k = Len(plan): none raises;
\* k = 0 also stands for the processor raising).
Transform(artifact_id, sourceType, plan, k) ==
  IF artifact_id \notin DOMAIN artifacts THEN Outcome(Store, TRUE)
  ELSE IF artifacts[artifact_id].type # sourceType THEN Outcome(Store, TRUE)
  ELSE Outcome(ApplyWrites(Store, plan, artifact_id, k), k < Len(plan))

\* create_prd_artifact(prd_content)
create_prd_artifact(content, k) ==
  IF content = "" THEN Outcome(Store, TRUE)
  ELSE Outcome(ApplyWrites(Store, CreatePrdWrites, NoParent, k), k < Len(CreatePrdWrites))

PRDProcessorExecute(artifact_id, k) ==
  Transform(artifact_id, "PRD", PRDProcessorWrites, k)

APIGeneratorExecute(artifact_id, k) ==
  Transform(artifact_id, "DDD_MODEL", APIGeneratorWrites, k)

TypeSpecGeneratorExecute(artifact_id, k) ==
  Transform(artifact_id, "API_SPEC", TypeSpecGeneratorWrites, k)

SchemaGeneratorExecute(artifact_id, k) ==
  Transform(artifact_id, "TYPESPEC", SchemaGeneratorWrites, k)

\* ---------------------------------------------------------------- the DAG
CheckTasks ==
  {"check_prd_approvals", "check_ddd_approvals", "check_api_approvals",
   "check_typespec_approvals", "check_zod_approvals", "check_db_approvals"}

Tasks ==
  {"create_prd", "process_prd", "generate_api", "generate_typespec",
   "generate_schemas", "finalize_pipeline"} \cup CheckTasks

\* Set task dependencies (a >> b: a is upstream of b)
Upstream(t) ==
  CASE t = "create_prd"               -> {}
    [] t = "check_prd_approvals"      -> {"create_prd"}
    [] t = "process_prd"              -> {"check_prd_approvals"}
    [] t = "check_ddd_approvals"      -> {"process_prd"}
    [] t = "generate_api"             -> {"check_ddd_approvals"}
    [] t = "check_api_approvals"      -> {"generate_api"}
    [] t = "generate_typespec"        -> {"check_api_approvals"}
    [] t = "check_typespec_approvals" -> {"generate_typespec"}
    [] t = "generate_schemas"         -> {"check_typespec_approvals"}
    [] t = "check_zod_approvals"      -> {"generate_schemas"}
    [] t = "check_db_approvals"       -> {"generate_schemas"}
    [] OTHER                          -> {"check_zod_approvals", "check_db_approvals"}

\* artifact_id of each ApprovalOperator task (its xcom_pull template)
CheckArtifactId(t) ==
  CASE t = "check_prd_approvals"      -> xcom.create_prd
    [] t = "check_ddd_approvals"      -> xcom.process_prd
    [] t = "check_api_approvals"      -> xcom.generate_api
    [] t = "check_typespec_approvals" -> xcom.generate_typespec
    [] t = "check_zod_approvals"      -> xcom.zod_schema_id
    [] OTHER                          -> xcom.db_schema_id

\* The default trigger rule, and finalize_task's: ALL_SUCCESS.
Runnable(t) ==
  /\ ti[t].state = "none"
  /\ \A u \in Upstream(t) : ti[u].state = "success"

\* The task instance after an attempt: success, or a failed attempt that is
\* retried while tries <= retries and fails the task after that.
AfterAttempt(inst, raised) ==
  IF ~raised THEN [state |-> "success", tries |-> inst.tries]
  ELSE IF inst.tries + 1 > Retries
       THEN [state |-> "failed", tries |-> inst.tries + 1]
       ELSE [state |-> "none", tries |-> inst.tries + 1]

\* A fault is injected only within the bound; an exception the code raises by
\* itself (a missing artifact, an empty PRD) needs no fault.
Fault(raised, byCode) ==
  IF raised /\ ~byCode
  THEN events < MaxEvents /\ events' = events + 1
  ELSE events' = events

\* Attempt of a creating task whose execution had outcome o.
CreatingAttempt(t, o, byCode, pushed) ==
  /\ Fault(o.raised, byCode)
  /\ artifacts' = o.artifacts
  /\ approvals' = o.approvals
  /\ ti' = [ti EXCEPT ![t] = AfterAttempt(@, o.raised)]
  /\ xcom' = IF o.raised THEN xcom ELSE pushed
  /\ UNCHANGED <<stages, prd_content, approved, completions, dec>>

CreatePrd ==
  /\ Runnable("create_prd")
  /\ \E k \in 0..Len(CreatePrdWrites) :
       LET o == create_prd_artifact(prd_content, k) IN
       CreatingAttempt("create_prd", o, prd_content = "",
                       IF o.raised THEN xcom
                       ELSE [xcom EXCEPT !.create_prd = o.created[1]])

ProcessPrd ==
  /\ Runnable("process_prd")
  /\ \E k \in 0..Len(PRDProcessorWrites) :
       LET o == PRDProcessorExecute(xcom.create_prd, k) IN
       CreatingAttempt("process_prd", o, FALSE,
                       IF o.raised THEN xcom
                       ELSE [xcom EXCEPT !.process_prd = o.created[1]])

GenerateApi ==
  /\ Runnable("generate_api")
  /\ \E k \in 0..Len(APIGeneratorWrites) :
       LET o == APIGeneratorExecute(xcom.process_prd, k) IN
       CreatingAttempt("generate_api", o, FALSE,
                       IF o.raised THEN xcom
                       ELSE [xcom EXCEPT !.generate_api = o.created[1]])

GenerateTypespec ==
  /\ Runnable("generate_typespec")
  /\ \E k \in 0..Len(TypeSpecGeneratorWrites) :
       LET o == TypeSpecGeneratorExecute(xcom.generate_api, k) IN
       CreatingAttempt("generate_typespec", o, FALSE,
                       IF o.raised THEN xcom
                       ELSE [xcom EXCEPT !.generate_typespec = o.created[1]])

GenerateSchemas ==
  /\ Runnable("generate_schemas")
  /\ \E k \in 0..Len(SchemaGeneratorWrites) :
       LET o == SchemaGeneratorExecute(xcom.generate_typespec, k) IN
       CreatingAttempt("generate_schemas", o, FALSE,
                       IF o.raised THEN xcom
                       ELSE [xcom EXCEPT !.zod_schema_id = o.created[1],
                                         !.db_schema_id = o.created[2]])

\* ------------------------------------------------------- ApprovalOperator
\* Mutant: an artifact that is no longer PENDING_APPROVAL is not approved.
ApprovalDecision_PendingOnly(artifact_id) ==
  IF artifact_id \notin DOMAIN artifacts THEN "raise"
  ELSE LET stage == ScanStages(0, artifacts[artifact_id].type) IN
       IF stage = NoStage THEN "raise"
       ELSE IF /\ artifacts[artifact_id].status = "PENDING_APPROVAL"
               /\ approved_count(artifact_id) >= stage.requiredApprovals
            THEN "True" ELSE "False"

\* Mutant: if approved_count >= 1.
ApprovalDecision_AnyApproval(artifact_id) ==
  IF artifact_id \notin DOMAIN artifacts THEN "raise"
  ELSE LET stage == ScanStages(0, artifacts[artifact_id].type) IN
       IF stage = NoStage THEN "raise"
       ELSE IF approved_count(artifact_id) >= 1 THEN "True" ELSE "False"

\* ApprovalOperator.execute up to its decision: "raise" (artifact or stage not
\* found), or the comparison approved_count >= required_approvals.
ApprovalDecision(artifact_id) ==
  IF artifact_id \notin DOMAIN artifacts THEN "raise"
  ELSE LET stage == ScanStages(0, artifacts[artifact_id].type) IN
       IF stage = NoStage THEN "raise"
       ELSE IF approved_count(artifact_id) >= stage.requiredApprovals
            THEN "True" ELSE "False"

\* check_artifact_approvals(artifact_id): no stage counts as complete
check_artifact_approvals(artifact_id) ==
  LET stage == ScanStages(0, artifacts[artifact_id].type) IN
  IF stage = NoStage THEN TRUE
  ELSE approved_count(artifact_id) >= stage.requiredApprovals

\* The reads of ApprovalOperator.execute (get_artifact, the stage scan,
\* get_approvals_for_artifact) and its decision. With quorum the task goes on
\* to update_artifact; without it the task returns False and succeeds.
CheckApprovals(t) ==
  /\ Runnable(t)
  /\ \E fault \in BOOLEAN :
       LET d == IF fault THEN "raise" ELSE ApprovalDecision(CheckArtifactId(t)) IN
       /\ Fault(d = "raise", ~fault)
       /\ ti' = [ti EXCEPT ![t] =
                   CASE d = "raise" -> AfterAttempt(@, TRUE)
                     [] d = "True"  -> [@ EXCEPT !.state = "running"]
                     [] OTHER       -> AfterAttempt(@, FALSE)]
       /\ approved' = IF d = "False" THEN [approved EXCEPT ![t] = "False"] ELSE approved
  /\ UNCHANGED <<stages, prd_content, artifacts, approvals, xcom, completions, dec>>

\* hook.update_artifact(self.artifact_id, {'status': 'APPROVED'}); return True
MarkApproved(t) ==
  /\ ti[t].state = "running"
  /\ \E fault \in BOOLEAN :
       /\ Fault(fault, FALSE)
       /\ ti' = [ti EXCEPT ![t] = AfterAttempt(@, fault)]
       /\ artifacts' = IF fault THEN artifacts
                       ELSE update_artifact(artifacts, CheckArtifactId(t), "APPROVED")
       /\ approved' = IF fault THEN approved ELSE [approved EXCEPT ![t] = "True"]
  /\ UNCHANGED <<stages, prd_content, approvals, xcom, completions, dec>>

\* ------------------------------------------------------ finalize_pipeline
\* Mutant: db_schema_id pulled with the key of the Zod schema.
finalize_pipeline_ZodKeyTwice ==
  [zod_schema_id |-> xcom.zod_schema_id, db_schema_id |-> xcom.zod_schema_id,
   status |-> "completed"]

finalize_pipeline ==
  [zod_schema_id |-> xcom.zod_schema_id, db_schema_id |-> xcom.db_schema_id,
   status |-> "completed"]

\* Mutant: trigger_rule ONE_SUCCESS.
FinalizeRunnable_OneSuccess ==
  /\ ti["finalize_pipeline"].state = "none"
  /\ \E u \in Upstream("finalize_pipeline") : ti[u].state = "success"

\* finalize_task may start: trigger_rule ALL_SUCCESS over both schema checks
FinalizeRunnable == Runnable("finalize_pipeline")

Finalize ==
  /\ FinalizeRunnable
  /\ \E fault \in BOOLEAN :
       LET raised == fault \/ xcom.zod_schema_id \notin DOMAIN artifacts
                           \/ xcom.db_schema_id \notin DOMAIN artifacts IN
       /\ Fault(raised, ~fault)
       /\ ti' = [ti EXCEPT !["finalize_pipeline"] = AfterAttempt(@, raised)]
       /\ completions' = IF raised THEN completions
                         ELSE Append(completions, finalize_pipeline)
  /\ UNCHANGED <<stages, prd_content, artifacts, approvals, xcom, approved, dec>>

\* The scheduler marks a task whose upstream failed: it never runs.
MarkUpstreamFailed(t) ==
  /\ ti[t].state = "none"
  /\ \E u \in Upstream(t) : ti[u].state \in {"failed", "upstream_failed"}
  /\ ti' = [ti EXCEPT ![t].state = "upstream_failed"]
  /\ UNCHANGED <<stages, prd_content, artifacts, approvals, xcom, approved,
                 completions, events, dec>>

\* ------------------------------------------------- ManualApprovalOperator
\* An execution is idle, or holds the record it chose (its id and the status it
\* read) before update_approval, or the artifact it is about to reject.
Idle == [pc |-> "idle", artifact_id |-> 0, approval |-> 0, seen |-> ""]

\* [a for a in approvals if a['stakeholderId'] == self.stakeholder_id]
RECURSIVE OfStakeholder(_, _)
OfStakeholder(ids, stakeholder_id) ==
  IF ids = <<>> THEN <<>>
  ELSE IF approvals[Head(ids)].stakeholderId = stakeholder_id
       THEN <<Head(ids)>> \o OfStakeholder(Tail(ids), stakeholder_id)
       ELSE OfStakeholder(Tail(ids), stakeholder_id)

\* Mutant: the filter by stakeholderId left out.
ManualLookup_NoFilter(artifact_id, stakeholder_id) ==
  LET stakeholder_approvals == get_approvals_for_artifact(artifact_id) IN
  IF stakeholder_approvals = <<>> THEN Idle
  ELSE [pc |-> "update", artifact_id |-> artifact_id,
        approval |-> stakeholder_approvals[1],
        seen |-> approvals[stakeholder_approvals[1]].status]

\* Mutant: without the early return, an execution that found no record goes on
\* to the rejection of the artifact.
ManualLookup_NoReturn(artifact_id, stakeholder_id) ==
  LET stakeholder_approvals ==
        OfStakeholder(get_approvals_for_artifact(artifact_id), stakeholder_id) IN
  IF stakeholder_approvals = <<>>
  THEN [pc |-> "reject", artifact_id |-> artifact_id, approval |-> 0, seen |-> ""]
  ELSE [pc |-> "update", artifact_id |-> artifact_id,
        approval |-> stakeholder_approvals[1],
        seen |-> approvals[stakeholder_approvals[1]].status]

\* ManualApprovalOperator.execute up to the choice of the record: the execution
\* after get_approvals_for_artifact and the filter. No record: a warning and
\* return.
ManualLookup(artifact_id, stakeholder_id) ==
  LET stakeholder_approvals ==
        OfStakeholder(get_approvals_for_artifact(artifact_id), stakeholder_id) IN
  IF stakeholder_approvals = <<>> THEN Idle
  ELSE [pc |-> "update", artifact_id |-> artifact_id,
        approval |-> stakeholder_approvals[1],
        seen |-> approvals[stakeholder_approvals[1]].status]

\* Executions are interchangeable: one starts in the first idle slot.
FirstIdle(p) ==
  /\ dec[p].pc = "idle"
  /\ \A q \in Deciders : dec[q].pc = "idle" => SlotOrder[p] <= SlotOrder[q]

ManualBegin(p) ==
  /\ FirstIdle(p)
  /\ events < MaxEvents
  /\ events' = events + 1
  /\ \E artifact_id \in DOMAIN artifacts, stakeholder_id \in Stakeholders :
       dec' = [dec EXCEPT ![p] = ManualLookup(artifact_id, stakeholder_id)]
  /\ UNCHANGED <<stages, prd_content, artifacts, approvals, ti, xcom, approved,
                 completions>>

\* Mutant: the update reaches every approval record of the artifact (WHERE
\* artifactId) instead of the one chosen.
ManualDecide_AllOfArtifact(apps, approval_id, approve, comment) ==
  [i \in DOMAIN apps |->
     IF apps[i].artifactId = apps[approval_id].artifactId
     THEN update_approval(apps, i, IF approve THEN "APPROVED" ELSE "REJECTED", comment)[i]
     ELSE apps[i]]

\* The table after hook.update_approval(approval['id'], update_data), where
\* update_data holds the status and, if self.comment, the comment.
ManualDecide(apps, approval_id, approve, comment) ==
  update_approval(apps, approval_id, IF approve THEN "APPROVED" ELSE "REJECTED", comment)

\* The arguments approve and comment of the execution are first used here, so
\* they are drawn here.
ManualUpdate(p) ==
  /\ dec[p].pc = "update"
  /\ \E in \in DecisionInputs :
       LET approve == in[1]
           comment == in[2] IN
       /\ approvals' = ManualDecide(approvals, dec[p].approval, approve, comment)
       /\ dec' = [dec EXCEPT ![p] = IF approve THEN Idle
                                    ELSE [@ EXCEPT !.pc = "reject", !.seen = ""]]
  /\ UNCHANGED <<stages, prd_content, artifacts, ti, xcom, approved, completions, events>>

\* Mutant: the rejection is passed on to the artifacts derived from the artifact.
ManualReject_Cascade(p) ==
  /\ dec[p].pc = "reject"
  /\ artifacts' = [b \in DOMAIN artifacts |->
                     IF b = dec[p].artifact_id \/ artifacts[b].parentId = dec[p].artifact_id
                     THEN [artifacts[b] EXCEPT !.status = "REJECTED"]
                     ELSE artifacts[b]]
  /\ dec' = [dec EXCEPT ![p] = Idle]
  /\ UNCHANGED <<stages, prd_content, approvals, ti, xcom, approved, completions, events>>

\* Mutant: the rejection stops at the approval record.
ManualReject_RecordOnly(p) ==
  /\ dec[p].pc = "reject"
  /\ dec' = [dec EXCEPT ![p] = Idle]
  /\ UNCHANGED <<stages, prd_content, artifacts, approvals, ti, xcom, approved,
                 completions, events>>

\* if not self.approve: hook.update_artifact(self.artifact_id, {'status': 'REJECTED'})
ManualReject(p) ==
  /\ dec[p].pc = "reject"
  /\ artifacts' = update_artifact(artifacts, dec[p].artifact_id, "REJECTED")
  /\ dec' = [dec EXCEPT ![p] = Idle]
  /\ UNCHANGED <<stages, prd_content, approvals, ti, xcom, approved, completions, events>>

\* ------------------------------------------------------- the specification
Init ==
  /\ stages \in StageConfigs
  /\ prd_content \in PrdContents
  /\ artifacts = <<>>
  /\ approvals = <<>>
  /\ ti = [t \in Tasks |-> [state |-> "none", tries |-> 0]]
  /\ xcom = [create_prd |-> NoId, process_prd |-> NoId, generate_api |-> NoId,
             generate_typespec |-> NoId, zod_schema_id |-> NoId, db_schema_id |-> NoId]
  /\ approved = [t \in CheckTasks |-> "none"]
  /\ completions = <<>>
  /\ events = 0
  /\ dec = [p \in Deciders |-> Idle]

Next ==
  \/ CreatePrd
  \/ ProcessPrd
  \/ GenerateApi
  \/ GenerateTypespec
  \/ GenerateSchemas
  \/ \E t \in CheckTasks : CheckApprovals(t)
  \/ \E t \in CheckTasks : MarkApproved(t)
  \/ Finalize
  \/ \E t \in Tasks : MarkUpstreamFailed(t)
  \/ \E p \in Deciders : ManualBegin(p)
  \/ \E p \in Deciders : ManualUpdate(p)
  \/ \E p \in Deciders : ManualReject(p)

Spec == Init /\ [][Next]_vars

\* ==================================================================== claims
\* What the claims speak of, stated on the tables alone.
ApprovedRecords(a) ==
  {i \in DOMAIN approvals :
     approvals[i].artifactId = a /\ approvals[i].status = "APPROVED"}

HasStage(type) == \E i \in DOMAIN stages : stages[i].artifactType = type

RequiredFor(type) ==
  stages[CHOOSE i \in DOMAIN stages : stages[i].artifactType = type].requiredApprovals

Quorum(a) == Cardinality(ApprovedRecords(a)) >= RequiredFor(artifacts[a].type)

NewArtifacts == (DOMAIN artifacts') \ (DOMAIN artifacts)

\* C1 (as claimed): a step creates a child artifact only when the source
\* artifact has status APPROVED.
C1_ChildOnlyOfApproved ==
  [][\A i \in NewArtifacts :
       artifacts'[i].parentId # NoParent =>
         artifacts[artifacts'[i].parentId].status = "APPROVED"]_vars

\* C2 (as claimed): finalize_pipeline produces its completion record only while
\* both siblings of generate_schemas have status APPROVED.
C2_FinalizeOnlyBothApproved ==
  [][Len(completions') > Len(completions) =>
       /\ artifacts[xcom.zod_schema_id].status = "APPROVED"
       /\ artifacts[xcom.db_schema_id].status = "APPROVED"]_vars

\* C3: finalize fires at most once in a run, its one completion record exists
\* exactly when the finalize task succeeded, names both siblings and comes after
\* both schema checks completed; and once both checks have marked their sibling
\* APPROVED, in either order, the record exists or finalize is due to run
\* (unless its own attempts were used up by faults).
C3_FinalizeExactlyOnce ==
  /\ Len(completions) <= 1
  /\ (Len(completions) = 1) <=> (ti["finalize_pipeline"].state = "success")
  /\ Len(completions) = 1 =>
       /\ ti["check_zod_approvals"].state = "success"
       /\ ti["check_db_approvals"].state = "success"
       /\ completions[1].zod_schema_id = xcom.zod_schema_id
       /\ completions[1].db_schema_id = xcom.db_schema_id
       /\ completions[1].zod_schema_id # completions[1].db_schema_id
  /\ (approved["check_zod_approvals"] = "True" /\ approved["check_db_approvals"] = "True") =>
       \/ Len(completions) = 1
       \/ FinalizeRunnable
       \/ ti["finalize_pipeline"].state = "failed"

\* Both siblings were marked APPROVED by their checks and the one record exists.
C3_Witness ==
  /\ approved["check_zod_approvals"] = "True"
  /\ approved["check_db_approvals"] = "True"
  /\ artifacts[xcom.zod_schema_id].status = "APPROVED"
  /\ artifacts[xcom.db_schema_id].status = "APPROVED"
  /\ Len(completions) = 1

\* C4: for an artifact whose type has a stage, both quorum tests are true iff
\* the number of its approval records with status APPROVED is at least the
\* stage's requiredApprovals; PENDING and REJECTED records do not count.
C4_QuorumIsApprovedCount ==
  \A a \in DOMAIN artifacts :
    HasStage(artifacts[a].type) =>
      LET decision == ApprovalDecision(a)
          quorum   == Quorum(a) IN
      /\ decision \in {"True", "False"}
      /\ (decision = "True") <=> quorum
      /\ check_artifact_approvals(a) <=> quorum

\* An artifact at quorum although one of its records is REJECTED and, of
\* another artifact, quorum missed with a PENDING record.
C4_Witness ==
  /\ \E a \in DOMAIN artifacts :
       /\ ApprovalDecision(a) = "True"
       /\ \E i \in DOMAIN approvals :
            approvals[i].artifactId = a /\ approvals[i].status = "REJECTED"
  /\ \E a \in DOMAIN artifacts :
       /\ ApprovalDecision(a) = "False"
       /\ \E i \in DOMAIN approvals :
            approvals[i].artifactId = a /\ approvals[i].status = "PENDING"

\* C5 (as claimed): once the quorum test is true for an artifact it stays true.
C5_QuorumMonotone ==
  [][\A a \in DOMAIN artifacts : Quorum(a) => Quorum(a)']_vars

\* C6 (as claimed): an approval record that is APPROVED or REJECTED keeps its
\* status and comment.
C6_DecidedIsImmutable ==
  [][\A i \in DOMAIN approvals :
       approvals[i].status # "PENDING" => approvals'[i] = approvals[i]]_vars

\* C7 (as claimed): of two executions that both read the record as PENDING, the
\* one whose update comes second does not change the record.
C7_CompareAndSet ==
  [][\A p \in Deciders :
       (/\ dec[p].pc = "update"
        /\ dec'[p].pc # "update"
        /\ dec[p].seen = "PENDING"
        /\ approvals[dec[p].approval].status # "PENDING")
       => approvals'[dec[p].approval] = approvals[dec[p].approval]]_vars

\* C8 (as claimed): the store holds at most one child artifact of a type per
\* parent.
C8_AtMostOneChild ==
  \A i, j \in DOMAIN artifacts :
    (/\ artifacts[i].parentId # NoParent
     /\ artifacts[i].parentId = artifacts[j].parentId
     /\ artifacts[i].type = artifacts[j].type) => i = j

\* C9: at most one approval record per (artifactId, stakeholderId) pair.
C9_OneApprovalPerPair ==
  \A i, j \in DOMAIN approvals :
    (/\ approvals[i].artifactId = approvals[j].artifactId
     /\ approvals[i].stakeholderId = approvals[j].stakeholderId) => i = j

\* generate_api succeeded at its retry after a first attempt that had stored
\* the artifact and an approval: two API_SPEC artifacts with approval records.
C9_Witness ==
  /\ ti["generate_api"] = [state |-> "success", tries |-> 1]
  /\ \E a, b \in DOMAIN artifacts :
       /\ a < b
       /\ artifacts[a].type = "API_SPEC" /\ artifacts[b].type = "API_SPEC"
       /\ get_approvals_for_artifact(a) # <<>>
       /\ Len(get_approvals_for_artifact(b)) = 2

\* C10 (as claimed): no step of the decision path makes an artifact REJECTED.
C10_RejectionKeepsArtifactStatus ==
  [][\A a \in DOMAIN artifacts :
       artifacts'[a].status = "REJECTED" => artifacts[a].status = "REJECTED"]_vars

\* C10 (amended): a reject decision of ManualApprovalOperator sets the record it
\* chose to REJECTED and, as its next and last step, the artifact's status to
\* REJECTED whatever it was, changing no other artifact; an approve decision
\* changes no artifact.
C10_RejectionMarksArtifact ==
  [][\A p \in Deciders :
       /\ (dec[p].pc = "update" /\ dec'[p].pc = "reject") =>
            /\ approvals'[dec[p].approval].status = "REJECTED"
            /\ artifacts' = artifacts
       /\ (dec[p].pc = "update" /\ dec'[p].pc = "idle") =>
            /\ approvals'[dec[p].approval].status = "APPROVED"
            /\ artifacts' = artifacts
       /\ (dec[p].pc = "reject" /\ dec'[p] # dec[p]) =>
            /\ dec'[p].pc = "idle"
            /\ artifacts'[dec[p].artifact_id].status = "REJECTED"
            /\ \A a \in DOMAIN artifacts :
                 a # dec[p].artifact_id => artifacts'[a] = artifacts[a]
            /\ approvals' = approvals]_vars

\* A completed reject decision: the record REJECTED with its comment, the
\* artifact REJECTED, no execution in flight.
C10_Witness ==
  /\ \A p \in Deciders : dec[p].pc = "idle"
  /\ \E i \in DOMAIN approvals :
       /\ approvals[i].status = "REJECTED"
       /\ approvals[i].comment = "c"
       /\ artifacts[approvals[i].artifactId].status = "REJECTED"

\* C11 (as claimed): an artifact that is APPROVED or REJECTED keeps its status,
\* and none of its approval records changes any more.
C11_TerminalStatuses ==
  [][\A a \in DOMAIN artifacts :
       artifacts[a].status \in {"APPROVED", "REJECTED"} =>
         /\ artifacts'[a].status = artifacts[a].status
         /\ \A i \in DOMAIN approvals :
              approvals[i].artifactId = a => approvals'[i] = approvals[i]]_vars

\* C12 (as claimed): a step gives an artifact status APPROVED only if its status
\* before the step is PENDING_APPROVAL.
C12_ApprovedOnlyFromPending ==
  [][\A a \in DOMAIN artifacts :
       (artifacts'[a].status = "APPROVED" /\ artifacts[a].status # "APPROVED")
         => artifacts[a].status = "PENDING_APPROVAL"]_vars

\* Every task of the run has ended: no ApprovalOperator will execute again.
DagRunOver ==
  \A t \in Tasks : ti[t].state \in {"success", "failed", "upstream_failed"}

\* C13 (as claimed), on the states where the run is over and nothing further
\* can mark an artifact APPROVED: no artifact a check task was given is left in
\* PENDING_APPROVAL with its quorum of APPROVED records and no rejection.
C13_QuorumEndsApproved ==
  DagRunOver =>
    \A t \in CheckTasks :
      LET a == CheckArtifactId(t) IN
      a \in DOMAIN artifacts =>
        ~ /\ artifacts[a].status = "PENDING_APPROVAL"
          /\ Quorum(a)
          /\ \A i \in DOMAIN approvals :
               approvals[i].artifactId = a => approvals[i].status # "REJECTED"

\* ------------------------------------------- a stage table with a row missing
\* Deployments whose pipelineStages table lacks the row of one artifact type.
MisconfiguredStages ==
  { [i \in (0..(NumStages - 1)) \ {m} |-> table[i]] :
    table \in StageConfigs, m \in 0..(NumStages - 1) }

InitAnyStages ==
  /\ stages \in StageConfigs \cup MisconfiguredStages
  /\ prd_content \in PrdContents
  /\ artifacts = <<>>
  /\ approvals = <<>>
  /\ ti = [t \in Tasks |-> [state |-> "none", tries |-> 0]]
  /\ xcom = [create_prd |-> NoId, process_prd |-> NoId, generate_api |-> NoId,
             generate_typespec |-> NoId, zod_schema_id |-> NoId, db_schema_id |-> NoId]
  /\ approved = [t \in CheckTasks |-> "none"]
  /\ completions = <<>>
  /\ events = 0
  /\ dec = [p \in Deciders |-> Idle]

SpecAnyStages == InitAnyStages /\ [][Next]_vars

\* C14 (as claimed): for an artifact whose type has no stage, ApprovalOperator
\* raises and check_artifact_approvals does not return True.
C14_NoStageIsNeverQuorum ==
  \A a \in DOMAIN artifacts :
    ~HasStage(artifacts[a].type) =>
      /\ ApprovalDecision(a) = "raise"
      /\ ~check_artifact_approvals(a)

\* The successor relation on artifact types.
SuccessorTypes ==
  {<<"PRD", "DDD_MODEL">>, <<"DDD_MODEL", "API_SPEC">>, <<"API_SPEC", "TYPESPEC">>,
   <<"TYPESPEC", "ZOD_SCHEMA">>, <<"TYPESPEC", "DB_SCHEMA">>}

\* The single-successor transform tasks, the id each is given and the type it
\* is to create.
SingleTransforms == {"process_prd", "generate_api", "generate_typespec"}

SourceId(t) ==
  CASE t = "process_prd"  -> xcom.create_prd
    [] t = "generate_api" -> xcom.process_prd
    [] OTHER              -> xcom.generate_api

TargetType(t) ==
  CASE t = "process_prd"  -> "DDD_MODEL"
    [] t = "generate_api" -> "API_SPEC"
    [] OTHER              -> "TYPESPEC"

Succeeds(t) == ti[t].state # "success" /\ ti'[t].state = "success"

\* C15: the execution with which process_prd, generate_api or generate_typespec
\* succeeds creates exactly one artifact, whose parentId is the id the task was
\* given, whose type is the successor of the source's type and whose status is
\* PENDING_APPROVAL; and every artifact with a parent has a type that is a
\* successor of its parent's type.
C15_OneSuccessorArtifact ==
  /\ [](\A i \in DOMAIN artifacts :
          artifacts[i].parentId # NoParent =>
            /\ artifacts[i].parentId \in DOMAIN artifacts
            /\ <<artifacts[artifacts[i].parentId].type, artifacts[i].type>>
                 \in SuccessorTypes)
  /\ [][\A t \in SingleTransforms :
          Succeeds(t) =>
            /\ Cardinality(NewArtifacts) = 1
            /\ \A n \in NewArtifacts :
                 /\ artifacts'[n] = [type |-> TargetType(t),
                                     status |-> "PENDING_APPROVAL",
                                     parentId |-> SourceId(t)]
                 /\ <<artifacts[SourceId(t)].type, TargetType(t)>> \in SuccessorTypes
                 /\ artifacts[SourceId(t)].type \notin {"TYPESPEC", TargetType(t)}]_vars

\* The three single-successor transforms have succeeded: the chain PRD,
\* DDD_MODEL, API_SPEC, TYPESPEC is in the store.
C15_Witness ==
  /\ \A t \in SingleTransforms : ti[t].state = "success"
  /\ artifacts[xcom.generate_typespec].type = "TYPESPEC"
  /\ artifacts[xcom.generate_typespec].parentId = xcom.generate_api
  /\ artifacts[xcom.generate_api].type = "API_SPEC"
  /\ artifacts[xcom.generate_api].parentId = xcom.process_prd
  /\ artifacts[xcom.process_prd].type = "DDD_MODEL"
  /\ artifacts[xcom.process_prd].parentId = xcom.create_prd
  /\ artifacts[xcom.create_prd].type = "PRD"

NewApprovals == (DOMAIN approvals') \ (DOMAIN approvals)

StakeholdersOf(apps, ids, a) ==
  {apps[i].stakeholderId : i \in {j \in ids : apps[j].artifactId = a}}

\* C16: the execution with which generate_schemas succeeds creates two
\* artifacts with distinct ids, a ZOD_SCHEMA and a DB_SCHEMA, both children of
\* the TYPESPEC it was given, and approval records that each belong to one of
\* the two (stakeholders 2 and 4 for the ZOD_SCHEMA, 3 and 5 for the
\* DB_SCHEMA); and a decision recorded on an approval record of one artifact
\* changes neither the APPROVED records nor the quorum of any other artifact.
C16_SiblingsAreIndependent ==
  [][/\ Succeeds("generate_schemas") =>
          LET z == xcom'.zod_schema_id
              d == xcom'.db_schema_id IN
          /\ artifacts[xcom.generate_typespec].type = "TYPESPEC"
          /\ NewArtifacts = {z, d}
          /\ z # d
          /\ artifacts'[z] = [type |-> "ZOD_SCHEMA", status |-> "PENDING_APPROVAL",
                              parentId |-> xcom.generate_typespec]
          /\ artifacts'[d] = [type |-> "DB_SCHEMA", status |-> "PENDING_APPROVAL",
                              parentId |-> xcom.generate_typespec]
          /\ Cardinality(NewApprovals) = 4
          /\ \A i \in NewApprovals : approvals'[i].artifactId \in {z, d}
          /\ StakeholdersOf(approvals', NewApprovals, z) = {2, 4}
          /\ StakeholdersOf(approvals', NewApprovals, d) = {3, 5}
     /\ \A p \in Deciders :
          (dec[p].pc = "update" /\ dec'[p].pc # "update") =>
            /\ approvals[dec[p].approval].artifactId = dec[p].artifact_id
            /\ \A b \in DOMAIN artifacts :
                 b # dec[p].artifact_id =>
                   /\ ApprovedRecords(b)' = ApprovedRecords(b)
                   /\ Quorum(b)' = Quorum(b)]_vars

\* Both siblings exist and a decision on the ZOD_SCHEMA has brought it to
\* quorum while the DB_SCHEMA has none of its records decided.
C16_Witness ==
  /\ ti["generate_schemas"].state = "success"
  /\ artifacts[xcom.zod_schema_id].type = "ZOD_SCHEMA"
  /\ artifacts[xcom.db_schema_id].type = "DB_SCHEMA"
  /\ artifacts[xcom.zod_schema_id].parentId = artifacts[xcom.db_schema_id].parentId
  /\ Quorum(xcom.zod_schema_id)
  /\ ~Quorum(xcom.db_schema_id)
  /\ \A i \in DOMAIN approvals :
       approvals[i].artifactId = xcom.db_schema_id => approvals[i].status = "PENDING"

\* Ids that are not those of an artifact of the type: the id of no artifact
\* (NoId, the next unused id) and the ids of the artifacts of another type.
BadSourceIds(sourceType) ==
  {NoId, Len(artifacts) + 1}
    \cup {a \in DOMAIN artifacts : artifacts[a].type # sourceType}

FailsCleanly(o) == o = Outcome(Store, TRUE)

\* C17: on every store the pipeline reaches, each transform operator executed
\* with an id that is unknown or is the id of an artifact of the wrong type
\* raises and leaves the artifacts and approvals tables as they are, whether
\* its first store call or none of its store calls would have raised.
C17_BadSourceFailsCleanly ==
  [](/\ \A id \in BadSourceIds("PRD"), k \in {0, Len(PRDProcessorWrites)} :
          FailsCleanly(PRDProcessorExecute(id, k))
     /\ \A id \in BadSourceIds("DDD_MODEL"), k \in {0, Len(APIGeneratorWrites)} :
          FailsCleanly(APIGeneratorExecute(id, k))
     /\ \A id \in BadSourceIds("API_SPEC"), k \in {0, Len(TypeSpecGeneratorWrites)} :
          FailsCleanly(TypeSpecGeneratorExecute(id, k))
     /\ \A id \in BadSourceIds("TYPESPEC"), k \in {0, Len(SchemaGeneratorWrites)} :
          FailsCleanly(SchemaGeneratorExecute(id, k)))

\* The store holds an artifact of every type with approval records: each
\* operator has ids of wrong-typed artifacts before and after its source type
\* in the chain, and the unknown ids, to be executed with.
C17_Witness ==
  /\ {artifacts[a].type : a \in DOMAIN artifacts}
       = {"PRD", "DDD_MODEL", "API_SPEC", "TYPESPEC", "ZOD_SCHEMA", "DB_SCHEMA"}
  /\ approvals # <<>>
  /\ SchemaGeneratorExecute(xcom.generate_api, Len(SchemaGeneratorWrites)).raised
  /\ PRDProcessorExecute(xcom.zod_schema_id, Len(PRDProcessorWrites)).raised
  /\ APIGeneratorExecute(Len(artifacts) + 1, Len(APIGeneratorWrites)).raised
  /\ ~SchemaGeneratorExecute(xcom.generate_typespec, Len(SchemaGeneratorWrites)).raised

\* How an execution of ManualApprovalOperator ends, given its lookup: without a
\* record of the stakeholder for the artifact execute logs a warning and
\* returns None; no statement of it raises.
ManualReturn(lookup) == [raised |-> FALSE, warned |-> lookup = Idle]

\* stakeholder_id values with and (6) without approval records anywhere
StakeholderIds == 1..6

NoRecord(artifact_id, stakeholder_id) ==
  \A i \in DOMAIN approvals :
    ~ /\ approvals[i].artifactId = artifact_id
      /\ approvals[i].stakeholderId = stakeholder_id

TransformTasks == SingleTransforms \cup {"generate_schemas"}

TransformSource(t) ==
  IF t = "generate_schemas" THEN xcom.generate_typespec ELSE SourceId(t)

\* C19 (as claimed), on the states where the run is over: a transform task
\* whose attempts are used up (state failed after Retries + 1 attempts) has left
\* its source artifact with status FAILED.
C19_ExhaustedRetriesMarkFailed ==
  DagRunOver =>
    \A t \in TransformTasks :
      ti[t].state = "failed" =>
        /\ ti[t].tries = Retries + 1
        /\ artifacts[TransformSource(t)].status = "FAILED"

ApproversOf(type) ==
  CASE type = "PRD"        -> {1}
    [] type = "DDD_MODEL"  -> {1}
    [] type = "API_SPEC"   -> {1, 2}
    [] type = "TYPESPEC"   -> {3}
    [] type = "ZOD_SCHEMA" -> {2, 4}
    [] OTHER               -> {3, 5}

RecordsOf(a, s) ==
  {i \in DOMAIN approvals :
     approvals[i].artifactId = a /\ approvals[i].stakeholderId = s}

\* C22 (as claimed): every artifact with status PENDING_APPROVAL has one
\* approval record for each approver of its stage.
C22_PendingIsSeeded ==
  \A a \in DOMAIN artifacts :
    artifacts[a].status = "PENDING_APPROVAL" =>
      \A s \in ApproversOf(artifacts[a].type) : Cardinality(RecordsOf(a, s)) = 1

\* C23: an execution of ApprovalOperator that finds the quorum test false
\* returns False and leaves artifacts and approvals as they are; one goes on to
\* its update only if it counted at least requiredApprovals APPROVED records;
\* and an artifact becomes APPROVED only by the update of such an execution.
C23_NoQuorumNoChange ==
  [][/\ \A t \in CheckTasks :
          LET a == CheckArtifactId(t) IN
          /\ (approved[t] = "none" /\ approved'[t] = "False") =>
               /\ ~Quorum(a)
               /\ artifacts' = artifacts
               /\ approvals' = approvals
               /\ ti'[t].state = "success"
          /\ (ti[t].state = "none" /\ ti'[t].state = "success") =>
               /\ approved'[t] = "False"
               /\ ~Quorum(a)
          /\ (ti[t].state = "none" /\ ti'[t].state = "running") =>
               /\ Quorum(a)
               /\ artifacts' = artifacts
               /\ approvals' = approvals
     /\ \A a \in DOMAIN artifacts :
          (artifacts'[a].status = "APPROVED" /\ artifacts[a].status # "APPROVED") =>
            \E t \in CheckTasks :
              /\ CheckArtifactId(t) = a
              /\ ti[t].state = "running"
              /\ approved'[t] = "True"]_vars

\* The ZOD_SCHEMA requires 2 approvals and has 1 APPROVED record: its check
\* returned False and it is still PENDING_APPROVAL.
C23_Witness ==
  /\ approved["check_zod_approvals"] = "False"
  /\ RequiredFor("ZOD_SCHEMA") = 2
  /\ Cardinality(ApprovedRecords(xcom.zod_schema_id)) = 1
  /\ artifacts[xcom.zod_schema_id].status = "PENDING_APPROVAL"

Attempts(t) == ti'[t] # ti[t] /\ ti'[t].state # "upstream_failed"

\* C25: an execution of a transform task, whether it succeeds or raises after
\* some of its store calls, leaves every artifact and every approval record
\* that existed before it as it was and only appends to the two tables; and no
\* step of any operation removes an artifact.
C25_TransformsOnlyAdd ==
  [][/\ \A t \in TransformTasks :
          Attempts(t) =>
            /\ Len(artifacts') >= Len(artifacts)
            /\ Len(approvals') >= Len(approvals)
            /\ \A a \in DOMAIN artifacts : artifacts'[a] = artifacts[a]
            /\ \A i \in DOMAIN approvals : approvals'[i] = approvals[i]
            /\ \A i \in NewApprovals : approvals'[i].artifactId \in NewArtifacts
     /\ DOMAIN artifacts \subseteq DOMAIN artifacts'
     /\ \A a \in DOMAIN artifacts :
          /\ artifacts'[a].type = artifacts[a].type
          /\ artifacts'[a].parentId = artifacts[a].parentId]_vars

\* generate_schemas has run on a TYPESPEC that is APPROVED with a decided
\* approval record, after an earlier attempt of it had stored artifacts.
C25_Witness ==
  /\ ti["generate_schemas"] = [state |-> "success", tries |-> 1]
  /\ artifacts[xcom.generate_typespec].status = "APPROVED"
  /\ \E i \in DOMAIN approvals :
       /\ approvals[i].artifactId = xcom.generate_typespec
       /\ approvals[i].status = "APPROVED"
  /\ Cardinality({a \in DOMAIN artifacts :
                    artifacts[a].parentId = xcom.generate_typespec}) > 2

\* C26 (as claimed): no step stores a child of an artifact whose status is
\* REJECTED.
C26_NoChildOfRejected ==
  [][\A i \in NewArtifacts :
       artifacts'[i].parentId # NoParent =>
         artifacts[artifacts'[i].parentId].status # "REJECTED"]_vars

Children(a) == {b \in DOMAIN artifacts : artifacts[b].parentId = a}

\* C27: a reject decision changes the one approval record the execution chose
\* and then the status of the one artifact it names; every other artifact, the
\* artifacts derived from the rejected one among them, and every other
\* approval record stay as they were.
C27_RejectionNotRetroactive ==
  [][\A p \in Deciders :
       /\ (dec[p].pc = "update" /\ dec'[p].pc = "reject") =>
            /\ \A i \in DOMAIN approvals :
                 i # dec[p].approval => approvals'[i] = approvals[i]
            /\ approvals[dec[p].approval].artifactId = dec[p].artifact_id
            /\ DOMAIN approvals' = DOMAIN approvals
            /\ artifacts' = artifacts
       /\ (dec[p].pc = "reject" /\ dec'[p].pc = "idle") =>
            /\ approvals' = approvals
            /\ DOMAIN artifacts' = DOMAIN artifacts
            /\ artifacts'[dec[p].artifact_id] =
                 [artifacts[dec[p].artifact_id] EXCEPT !.status = "REJECTED"]
            /\ \A b \in DOMAIN artifacts :
                 b # dec[p].artifact_id => artifacts'[b] = artifacts[b]
            /\ \A b \in Children(dec[p].artifact_id) :
                 /\ artifacts'[b].status = artifacts[b].status
                 /\ \A i \in DOMAIN approvals :
                      approvals[i].artifactId = b => approvals'[i] = approvals[i]]_vars

\* A REJECTED artifact with a derived artifact that is APPROVED with an
\* APPROVED record.
C27_Witness ==
  \E a \in DOMAIN artifacts :
    /\ artifacts[a].status = "REJECTED"
    /\ \E b \in Children(a) :
         /\ artifacts[b].status = "APPROVED"
         /\ ApprovedRecords(b) # {}

\* C28: a completion record has the keys zod_schema_id, db_schema_id and
\* status; its status is 'completed' and its two ids are those the successful
\* execution of generate_schemas pushed: a ZOD_SCHEMA and a DB_SCHEMA artifact,
\* distinct, both children of the TYPESPEC the run generated.
C28_CompletionNamesBothSiblings ==
  [](\A n \in DOMAIN completions :
       LET r == completions[n]
           z == r.zod_schema_id
           d == r.db_schema_id IN
       /\ DOMAIN r = {"zod_schema_id", "db_schema_id", "status"}
       /\ r.status = "completed"
       /\ ti["generate_schemas"].state = "success"
       /\ z = xcom.zod_schema_id
       /\ d = xcom.db_schema_id
       /\ z # d
       /\ {z, d} \subseteq DOMAIN artifacts
       /\ artifacts[z].type = "ZOD_SCHEMA"
       /\ artifacts[d].type = "DB_SCHEMA"
       /\ artifacts[z].parentId = xcom.generate_typespec
       /\ artifacts[d].parentId = xcom.generate_typespec)

\* The run has completed after generate_schemas succeeded at its retry: the
\* store holds a ZOD_SCHEMA of the failed attempt besides the siblings named in
\* the record.
C28_Witness ==
  /\ Len(completions) = 1
  /\ ti["generate_schemas"] = [state |-> "success", tries |-> 1]
  /\ \E a \in DOMAIN artifacts :
       /\ artifacts[a].type = "ZOD_SCHEMA"
       /\ a # completions[1].zod_schema_id

\* --------------------------------- a stage table requiring more than is seeded
\* Deployments in which the row of one type requires one approval more than
\* the creating operator of that type seeds.
OverDemandingStages ==
  { [i \in 0..(NumStages - 1) |->
       [artifactType |-> TypeAt[i],
        requiredApprovals |-> IF i = m THEN SeededAt[i] + 1 ELSE SeededAt[i]]] :
    m \in 0..(NumStages - 1) }

InitAnyRequired ==
  /\ stages \in StageConfigs \cup OverDemandingStages
  /\ prd_content \in PrdContents
  /\ artifacts = <<>>
  /\ approvals = <<>>
  /\ ti = [t \in Tasks |-> [state |-> "none", tries |-> 0]]
  /\ xcom = [create_prd |-> NoId, process_prd |-> NoId, generate_api |-> NoId,
             generate_typespec |-> NoId, zod_schema_id |-> NoId, db_schema_id |-> NoId]
  /\ approved = [t \in CheckTasks |-> "none"]
  /\ completions = <<>>
  /\ events = 0
  /\ dec = [p \in Deciders |-> Idle]

SpecAnyRequired == InitAnyRequired /\ [][Next]_vars

\* C29 (as claimed): an artifact whose creating task has succeeded has at least
\* as many approval records as its stage requires approvals.
C29_QuorumIsReachable ==
  \A t \in CheckTasks :
    LET a == CheckArtifactId(t) IN
    a \in DOMAIN artifacts =>
      Len(get_approvals_for_artifact(a)) >= RequiredFor(artifacts[a].type)

Siblings(a, type) ==
  {b \in DOMAIN artifacts :
     artifacts[b].type = type /\ artifacts[b].parentId = artifacts[a].parentId}

\* C30 (as claimed): every ZOD_SCHEMA artifact has exactly one DB_SCHEMA
\* artifact with the same parentId, and every DB_SCHEMA artifact exactly one
\* ZOD_SCHEMA artifact with the same parentId.
C30_FanOutAllOrNothing ==
  \A a \in DOMAIN artifacts :
    /\ artifacts[a].type = "ZOD_SCHEMA" => Cardinality(Siblings(a, "DB_SCHEMA")) = 1
    /\ artifacts[a].type = "DB_SCHEMA" => Cardinality(Siblings(a, "ZOD_SCHEMA")) = 1

ApprovingStakeholders(a) == {approvals[i].stakeholderId : i \in ApprovedRecords(a)}

\* C31: the APPROVED records of an artifact belong to as many distinct
\* stakeholders as there are records, so an artifact at quorum has at least
\* requiredApprovals distinct approving stakeholders; and a record becomes
\* APPROVED only by the update of an execution that chose that record for its
\* artifact, one record per update.
C31_OneVotePerStakeholder ==
  /\ [](\A a \in DOMAIN artifacts :
          LET voters == ApprovingStakeholders(a) IN
          /\ Cardinality(ApprovedRecords(a)) = Cardinality(voters)
          /\ Quorum(a) => Cardinality(voters) >= RequiredFor(artifacts[a].type))
  /\ [][\A i \in DOMAIN approvals :
          (approvals'[i].status = "APPROVED" /\ approvals[i].status # "APPROVED") =>
            /\ \E p \in Deciders :
                 /\ dec[p].pc = "update"
                 /\ dec'[p].pc = "idle"
                 /\ dec[p].approval = i
                 /\ dec[p].artifact_id = approvals[i].artifactId
            /\ \A j \in DOMAIN approvals : j # i => approvals'[j] = approvals[j]]_vars

\* The ZOD_SCHEMA requires 2 approvals and is at quorum with the APPROVED
\* records of stakeholders 2 and 4.
C31_Witness ==
  /\ xcom.zod_schema_id \in DOMAIN artifacts
  /\ RequiredFor("ZOD_SCHEMA") = 2
  /\ Quorum(xcom.zod_schema_id)
  /\ ApprovingStakeholders(xcom.zod_schema_id) = {2, 4}

\* C32: wherever an execution of ManualApprovalOperator can start, the record
\* it chooses for artifact A and stakeholder S is a record of A whose
\* stakeholderId is S; its update changes the status and comment of that record
\* alone, adds and removes no record, and on an approve decision ends the
\* execution with every artifact unchanged; its other steps change no approval
\* record.
C32_DecisionChangesOneRecord ==
  /\ [](events < MaxEvents =>
          \A a \in DOMAIN artifacts, s \in StakeholderIds :
            LET lookup == ManualLookup(a, s) IN
            lookup # Idle =>
              /\ lookup.pc = "update"
              /\ lookup.artifact_id = a
              /\ lookup.approval \in DOMAIN approvals
              /\ approvals[lookup.approval].artifactId = a
              /\ approvals[lookup.approval].stakeholderId = s)
  /\ [][\A p \in Deciders :
          /\ (dec[p].pc = "update" /\ dec'[p].pc # "update") =>
               LET chosen == dec[p].approval IN
               /\ DOMAIN approvals' = DOMAIN approvals
               /\ \A i \in DOMAIN approvals :
                    i # chosen => approvals'[i] = approvals[i]
               /\ approvals'[chosen].artifactId = approvals[chosen].artifactId
               /\ approvals'[chosen].stakeholderId = approvals[chosen].stakeholderId
               /\ approvals'[chosen].status \in {"APPROVED", "REJECTED"}
               /\ artifacts' = artifacts
               /\ approvals'[chosen].status = "APPROVED" => dec'[p] = Idle
          /\ (dec[p].pc # "update" /\ dec'[p] # dec[p]) => approvals' = approvals]_vars

\* Stakeholder 4's approve decision on the ZOD_SCHEMA is recorded: the record
\* of stakeholder 2, which comes first among the artifact's records, is
\* PENDING, and no artifact has changed status.
C32_Witness ==
  /\ xcom.zod_schema_id \in DOMAIN artifacts
  /\ ApprovingStakeholders(xcom.zod_schema_id) = {4}
  /\ \E i \in RecordsOf(xcom.zod_schema_id, 2) : approvals[i].status = "PENDING"
  /\ \A p \in Deciders : dec[p] = Idle
  /\ \A a \in DOMAIN artifacts : artifacts[a].status = "PENDING_APPROVAL"

====
